---- MODULE Spec2Model ----
(***************************************************************************)
(* Model of telephone_game_llm: the word-level diff engine of visualize.py *)
(* (tokenize, _apply_trailing_period_tolerance, get_word_diffs with the    *)
(* difflib.SequenceMatcher alignment it calls), the renderer loop of       *)
(* generate_html and the chain runner run_chain of main.py.                *)
(*                                                                         *)
(* A Python str is a sequence of one-character strings.  Python indices    *)
(* are kept 0-based in every value the code computes (opcodes, matching    *)
(* blocks, _last_non_space_index); Py(s, i) reads s[i].                    *)
(***************************************************************************)
EXTENDS Integers, Sequences, FiniteSets, TLC

\* ------------------------------------------------------------------ bounds

\* Longest string of the exhaustive input family.
MaxLen == 4

\* Characters of the exhaustive input family: a letter, the period, a blank.
Chars == {"a", ".", " "}

\* The characters for which str.isspace() / the regex class \s hold.
Whitespace == {" ", "\t", "\n", "\r"}

\* ----------------------------------------------------------- Python helpers

Py(s, i) == s[i + 1]

\* s[lo:hi] for 0 <= lo, hi <= len(s)
Slice(s, lo, hi) == SubSeq(s, lo + 1, hi)

isspace(s) == Len(s) > 0 /\ \A k \in 1..Len(s) : s[k] \in Whitespace

endswith_period(s) == Len(s) > 0 /\ s[Len(s)] = "."

RECURSIVE join(_)
join(parts) ==
    IF parts = <<>> THEN <<>> ELSE Head(parts) \o join(Tail(parts))

\* ---------------------------------------------------------------- tokenize

\* The end (exclusive, 0-based) of the run of characters of one class that
\* starts at position lo: what the greedy \S+ or \s+ consumes.
RECURSIVE run_end(_, _, _)
run_end(text, lo, hi) ==
    IF hi < Len(text) /\ ((Py(text, hi) \in Whitespace) = (Py(text, lo) \in Whitespace))
    THEN run_end(text, lo, hi + 1)
    ELSE hi

RECURSIVE findall(_, _)
findall(text, pos) ==
    IF pos >= Len(text) THEN <<>>
    ELSE LET e == run_end(text, pos, pos + 1)
         IN  <<Slice(text, pos, e)>> \o findall(text, e)

tokenize_dropping_whitespace(text) ==
    SelectSeq(findall(text, 0), LAMBDA t : ~isspace(t))

tokenize_per_character(text) == [k \in 1..Len(text) |-> <<text[k]>>]

tokenize(text) == findall(text, 0)

\* ------------------------------------------ _apply_trailing_period_tolerance

None == -1

\* The index (0-based) of the last token that is not whitespace, or None.
RECURSIVE last_non_space_from(_, _)
last_non_space_from(tokens, i) ==
    IF i < 0 THEN None
    ELSE IF ~isspace(Py(tokens, i)) THEN i
    ELSE last_non_space_from(tokens, i - 1)

_last_non_space_index(tokens) == last_non_space_from(tokens, Len(tokens) - 1)

\* The value returned and the two argument lists as the call leaves them:
\* <<orig_keys, mod_keys, original_tokens, modified_tokens>>.  The keys are
\* copies (tokens[:]), so the assignment to mod_keys[mod_last] does not reach
\* modified_tokens.
tolerance_any_period(original_tokens, modified_tokens, strict_punctuation) ==
    IF strict_punctuation
    THEN <<original_tokens, modified_tokens, original_tokens, modified_tokens>>
    ELSE
    LET orig_last == _last_non_space_index(original_tokens)
        mod_last  == _last_non_space_index(modified_tokens)
    IN  IF orig_last = None \/ mod_last = None
        THEN <<original_tokens, modified_tokens, original_tokens, modified_tokens>>
        ELSE LET orig_token == Py(original_tokens, orig_last)
                 mod_token  == Py(modified_tokens, mod_last)
                 stripped   == [modified_tokens EXCEPT ![mod_last + 1] =
                                    Slice(mod_token, 0, Len(mod_token) - 1)]
             IN  IF endswith_period(mod_token)
                 THEN <<original_tokens, stripped, original_tokens, modified_tokens>>
                 ELSE <<original_tokens, modified_tokens, original_tokens, modified_tokens>>

tolerance_without_orig_check(original_tokens, modified_tokens, strict_punctuation) ==
    IF strict_punctuation
    THEN <<original_tokens, modified_tokens, original_tokens, modified_tokens>>
    ELSE
    LET orig_last == _last_non_space_index(original_tokens)
        mod_last  == _last_non_space_index(modified_tokens)
    IN  IF orig_last = None \/ mod_last = None
        THEN <<original_tokens, modified_tokens, original_tokens, modified_tokens>>
        ELSE LET orig_token == Py(original_tokens, orig_last)
                 mod_token  == Py(modified_tokens, mod_last)
                 stripped   == [modified_tokens EXCEPT ![mod_last + 1] =
                                    Slice(mod_token, 0, Len(mod_token) - 1)]
             IN  IF /\ endswith_period(mod_token)
                    /\ Slice(mod_token, 0, Len(mod_token) - 1) = orig_token
                 THEN <<original_tokens, stripped, original_tokens, modified_tokens>>
                 ELSE <<original_tokens, modified_tokens, original_tokens, modified_tokens>>

tolerance_ignoring_strict(original_tokens, modified_tokens, strict_punctuation) ==
    LET orig_last == _last_non_space_index(original_tokens)
        mod_last  == _last_non_space_index(modified_tokens)
    IN  IF orig_last = None \/ mod_last = None
        THEN <<original_tokens, modified_tokens, original_tokens, modified_tokens>>
        ELSE LET orig_token == Py(original_tokens, orig_last)
                 mod_token  == Py(modified_tokens, mod_last)
                 stripped   == [modified_tokens EXCEPT ![mod_last + 1] =
                                    Slice(mod_token, 0, Len(mod_token) - 1)]
             IN  IF /\ endswith_period(mod_token)
                    /\ ~endswith_period(orig_token)
                    /\ Slice(mod_token, 0, Len(mod_token) - 1) = orig_token
                 THEN <<original_tokens, stripped, original_tokens, modified_tokens>>
                 ELSE <<original_tokens, modified_tokens, original_tokens, modified_tokens>>

tolerance_without_copy(original_tokens, modified_tokens, strict_punctuation) ==
    IF strict_punctuation
    THEN <<original_tokens, modified_tokens, original_tokens, modified_tokens>>
    ELSE
    LET orig_last == _last_non_space_index(original_tokens)
        mod_last  == _last_non_space_index(modified_tokens)
    IN  IF orig_last = None \/ mod_last = None
        THEN <<original_tokens, modified_tokens, original_tokens, modified_tokens>>
        ELSE LET orig_token == Py(original_tokens, orig_last)
                 mod_token  == Py(modified_tokens, mod_last)
                 stripped   == [modified_tokens EXCEPT ![mod_last + 1] =
                                    Slice(mod_token, 0, Len(mod_token) - 1)]
             IN  IF /\ endswith_period(mod_token)
                    /\ ~endswith_period(orig_token)
                    /\ Slice(mod_token, 0, Len(mod_token) - 1) = orig_token
                 THEN <<original_tokens, stripped, original_tokens, stripped>>
                 ELSE <<original_tokens, modified_tokens, original_tokens, modified_tokens>>

_apply_trailing_period_tolerance(original_tokens, modified_tokens, strict_punctuation) ==
    IF strict_punctuation
    THEN <<original_tokens, modified_tokens, original_tokens, modified_tokens>>
    ELSE
    LET orig_last == _last_non_space_index(original_tokens)
        mod_last  == _last_non_space_index(modified_tokens)
    IN  IF orig_last = None \/ mod_last = None
        THEN <<original_tokens, modified_tokens, original_tokens, modified_tokens>>
        ELSE LET orig_token == Py(original_tokens, orig_last)
                 mod_token  == Py(modified_tokens, mod_last)
                 stripped   == [modified_tokens EXCEPT ![mod_last + 1] =
                                    Slice(mod_token, 0, Len(mod_token) - 1)]
             IN  IF /\ endswith_period(mod_token)
                    /\ ~endswith_period(orig_token)
                    /\ Slice(mod_token, 0, Len(mod_token) - 1) = orig_token
                 THEN <<original_tokens, stripped, original_tokens, modified_tokens>>
                 ELSE <<original_tokens, modified_tokens, original_tokens, modified_tokens>>

\* ------------------------------------------------- difflib.SequenceMatcher
\* SequenceMatcher(None, a, b): isjunk is None, autojunk keeps its default.

\* __chain_b: with autojunk, once b has AutojunkMinLen elements, the elements
\* that occur more than len(b) // AutojunkDivisor + 1 times are dropped from
\* the index b2j ("popular").
AutojunkMinLen == 200
AutojunkDivisor == 100

occurrences(b, elt) == Cardinality({k \in 1..Len(b) : b[k] = elt})

popular(b, elt) ==
    /\ Len(b) >= AutojunkMinLen
    /\ occurrences(b, elt) > (Len(b) \div AutojunkDivisor) + 1

\* j2len of find_longest_match: the length of the run of equal, indexed
\* elements that ends at a[i], b[j] inside the window that starts at alo, blo.
RECURSIVE j2len(_, _, _, _, _, _)
j2len(a, b, alo, blo, i, j) ==
    IF i < alo \/ j < blo THEN 0
    ELSE IF Py(a, i) # Py(b, j) \/ popular(b, Py(b, j)) THEN 0
    ELSE j2len(a, b, alo, blo, i - 1, j - 1) + 1

\* The two nested loops of find_longest_match, i ascending and, for each i,
\* j ascending over b2j[a[i]]; best is <<besti, bestj, bestsize>>.
RECURSIVE scan(_, _, _, _, _, _, _, _, _)
scan(a, b, alo, ahi, blo, bhi, i, j, best) ==
    IF i >= ahi THEN best
    ELSE IF j >= bhi THEN scan(a, b, alo, ahi, blo, bhi, i + 1, blo, best)
    ELSE LET k == j2len(a, b, alo, blo, i, j)
         IN  scan(a, b, alo, ahi, blo, bhi, i, j + 1,
                  IF k > best[3] THEN <<i - k + 1, j - k + 1, k>> ELSE best)

RECURSIVE extend_back(_, _, _, _, _)
extend_back(a, b, alo, blo, best) ==
    IF /\ best[1] > alo
       /\ best[2] > blo
       /\ Py(a, best[1] - 1) = Py(b, best[2] - 1)
    THEN extend_back(a, b, alo, blo, <<best[1] - 1, best[2] - 1, best[3] + 1>>)
    ELSE best

RECURSIVE extend_forward_unchecked(_, _, _, _, _)
extend_forward_unchecked(a, b, ahi, bhi, best) ==
    IF /\ best[1] + best[3] < ahi
       /\ best[2] + best[3] < bhi
    THEN extend_forward_unchecked(a, b, ahi, bhi, <<best[1], best[2], best[3] + 1>>)
    ELSE best

RECURSIVE extend_forward(_, _, _, _, _)
extend_forward(a, b, ahi, bhi, best) ==
    IF /\ best[1] + best[3] < ahi
       /\ best[2] + best[3] < bhi
       /\ Py(a, best[1] + best[3]) = Py(b, best[2] + best[3])
    THEN extend_forward(a, b, ahi, bhi, <<best[1], best[2], best[3] + 1>>)
    ELSE best

find_longest_match(a, b, alo, ahi, blo, bhi) ==
    extend_forward(a, b, ahi, bhi,
        extend_back(a, b, alo, blo,
            scan(a, b, alo, ahi, blo, bhi, alo, blo, <<alo, blo, 0>>)))

\* The work-list loop of get_matching_blocks; queue.pop() takes the last.
RECURSIVE blocks_loop(_, _, _, _)
blocks_loop(a, b, queue, matching_blocks) ==
    IF queue = <<>> THEN matching_blocks
    ELSE
    LET q    == queue[Len(queue)]
        rest == SubSeq(queue, 1, Len(queue) - 1)
        alo  == q[1]
        ahi  == q[2]
        blo  == q[3]
        bhi  == q[4]
        x    == find_longest_match(a, b, alo, ahi, blo, bhi)
        i    == x[1]
        j    == x[2]
        k    == x[3]
        left  == IF alo < i /\ blo < j THEN <<<<alo, i, blo, j>>>> ELSE <<>>
        right == IF i + k < ahi /\ j + k < bhi
                 THEN <<<<i + k, ahi, j + k, bhi>>>> ELSE <<>>
    IN  IF k # 0
        THEN blocks_loop(a, b, rest \o left \o right, Append(matching_blocks, x))
        ELSE blocks_loop(a, b, rest, matching_blocks)

\* Tuple order of Python on the triples <<i, j, k>>.
tuple_less(x, y) ==
    \/ x[1] < y[1]
    \/ x[1] = y[1] /\ x[2] < y[2]
    \/ x[1] = y[1] /\ x[2] = y[2] /\ x[3] < y[3]

RECURSIVE sorted(_)
sorted(blocks) ==
    IF blocks = <<>> THEN <<>>
    ELSE LET m == CHOOSE k \in 1..Len(blocks) :
                      \A l \in 1..Len(blocks) :
                          l = k \/ blocks[l] = blocks[k] \/ tuple_less(blocks[k], blocks[l])
         IN  <<blocks[m]>> \o
             sorted(SubSeq(blocks, 1, m - 1) \o SubSeq(blocks, m + 1, Len(blocks)))

\* The loop of get_matching_blocks that merges adjacent blocks; cur is
\* <<i1, j1, k1>>.
RECURSIVE collapse(_, _, _)
collapse(blocks, cur, non_adjacent) ==
    IF blocks = <<>>
    THEN IF cur[3] # 0 THEN Append(non_adjacent, cur) ELSE non_adjacent
    ELSE LET x == Head(blocks)
         IN  IF cur[1] + cur[3] = x[1] /\ cur[2] + cur[3] = x[2]
             THEN collapse(Tail(blocks), <<cur[1], cur[2], cur[3] + x[3]>>, non_adjacent)
             ELSE collapse(Tail(blocks), x,
                           IF cur[3] # 0 THEN Append(non_adjacent, cur)
                           ELSE non_adjacent)

get_matching_blocks(a, b) ==
    Append(collapse(sorted(blocks_loop(a, b, <<<<0, Len(a), 0, Len(b)>>>>, <<>>)),
                    <<0, 0, 0>>, <<>>),
           <<Len(a), Len(b), 0>>)

\* The loop of get_opcodes over the matching blocks, from a[i:], b[j:].
RECURSIVE opcodes_loop(_, _, _)
opcodes_loop(blocks, i, j) ==
    IF blocks = <<>> THEN <<>>
    ELSE
    LET ai   == Head(blocks)[1]
        bj   == Head(blocks)[2]
        size == Head(blocks)[3]
        tag  == IF i < ai /\ j < bj THEN "replace"
                ELSE IF i < ai THEN "delete"
                ELSE IF j < bj THEN "insert"
                ELSE ""
        gap  == IF tag # "" THEN <<<<tag, i, ai, j, bj>>>> ELSE <<>>
        eq   == IF size # 0 THEN <<<<"equal", ai, ai + size, bj, bj + size>>>> ELSE <<>>
    IN  gap \o eq \o opcodes_loop(Tail(blocks), ai + size, bj + size)

get_opcodes(a, b) == opcodes_loop(get_matching_blocks(a, b), 0, 0)

\* ------------------------------------------------------------ get_word_diffs

\* What one iteration of the loop over the opcodes appends to result.
emit_insert_unchanged(mod_tokens, op) ==
    LET toks == Slice(mod_tokens, op[4], op[5])
    IN  IF op[1] = "equal" \/ op[1] = "insert"
        THEN [k \in 1..Len(toks) |-> <<toks[k], FALSE>>]
        ELSE IF op[1] = "replace"
        THEN [k \in 1..Len(toks) |-> <<toks[k], TRUE>>]
        ELSE <<>>

emit_replace_unchanged(mod_tokens, op) ==
    LET toks == Slice(mod_tokens, op[4], op[5])
    IN  IF op[1] = "equal" \/ op[1] = "replace"
        THEN [k \in 1..Len(toks) |-> <<toks[k], FALSE>>]
        ELSE IF op[1] = "insert"
        THEN [k \in 1..Len(toks) |-> <<toks[k], TRUE>>]
        ELSE <<>>

emit_without_insert(mod_tokens, op) ==
    LET toks == Slice(mod_tokens, op[4], op[5])
    IN  IF op[1] = "equal"
        THEN [k \in 1..Len(toks) |-> <<toks[k], FALSE>>]
        ELSE IF op[1] = "replace"
        THEN [k \in 1..Len(toks) |-> <<toks[k], TRUE>>]
        ELSE <<>>

emit(mod_tokens, op) ==
    LET toks == Slice(mod_tokens, op[4], op[5])
    IN  IF op[1] = "equal"
        THEN [k \in 1..Len(toks) |-> <<toks[k], FALSE>>]
        ELSE IF op[1] = "replace" \/ op[1] = "insert"
        THEN [k \in 1..Len(toks) |-> <<toks[k], TRUE>>]
        ELSE <<>>

RECURSIVE emit_all(_, _)
emit_all(mod_tokens, ops) ==
    IF ops = <<>> THEN <<>>
    ELSE emit(mod_tokens, Head(ops)) \o emit_all(mod_tokens, Tail(ops))

\* get_word_diffs as a function of its arguments.
get_word_diffs(original, modified, strict_punctuation) ==
    LET keys == _apply_trailing_period_tolerance(tokenize(original), tokenize(modified),
                                                 strict_punctuation)
    IN  emit_all(keys[4], get_opcodes(keys[1], keys[2]))

\* -------------------------------------------------------------------- inputs

\* Every string over Chars of at most MaxLen characters.
Strings == UNION {[1..n -> Chars] : n \in 0..MaxLen}

Hello   == <<"H", "e", "l", "l", "o">>
world   == <<"w", "o", "r", "l", "d">>
The     == <<"T", "h", "e">>
cat     == <<"c", "a", "t">>
dog     == <<"d", "o", "g">>
sat     == <<"s", "a", "t">>
quietly == <<"q", "u", "i", "e", "t", "l", "y">>
abc     == <<"a", "b", "c">>
xyz     == <<"x", "y", "z">>
SP      == <<" ">>
DOT     == <<".">>
NL      == <<"\n">>

HelloWorld == Hello \o SP \o world
TheCatSat  == The \o SP \o cat \o SP \o sat

\* The pairs (original, modified) the documentation names, and a few of the
\* same words with a replaced word, a deleted word, a changed separator and
\* whitespace after the last word.
ExamplePairs ==
    { <<HelloWorld, HelloWorld \o DOT>>,
      <<HelloWorld \o DOT, HelloWorld \o DOT \o DOT>>,
      <<TheCatSat, TheCatSat \o SP \o quietly>>,
      <<TheCatSat \o SP \o quietly, TheCatSat>>,
      <<TheCatSat, The \o SP \o dog \o SP \o sat \o DOT>>,
      <<TheCatSat \o SP, The \o SP \o dog \o SP \o sat \o DOT \o NL>>,
      <<TheCatSat, The \o NL \o cat \o SP \o SP \o sat>>,
      <<abc, xyz>>,
      <<abc, <<>>>> }

InputPairs == (Strings \X Strings) \cup ExamplePairs

\* --------------------------------------------------------------------- state

VARIABLES
    \* get_word_diffs: its arguments, its locals and where it stands
    original, modified, strict_punctuation,
    orig_tokens, mod_tokens, orig_keys, mod_keys,
    opcodes, result, pc,
    \* run_chain: the dict it builds, its locals, its two loop positions
    results, current_message, step_number, iteration, model_index,
    \* generate_html: its locals and the position of its loop over the steps
    previous_output, step_index, steps_html,
    \* history: the (original, modified) of every get_word_diffs call that
    \* generate_html made, with the position of the step it was made for
    calls,
    \* who built results ("run_chain" or "file") and where main stands
    source, main_pc

diffVars == <<original, modified, strict_punctuation, orig_tokens, mod_tokens,
              orig_keys, mod_keys, opcodes, result, pc>>

chainVars == <<results, current_message, step_number, iteration, model_index>>

genVars == <<previous_output, step_index, steps_html, calls>>

mainVars == <<chainVars, genVars, source, main_pc>>

vars == <<diffVars, mainVars>>

\* ------------------------------------------- get_word_diffs, step by step

DiffInit ==
    /\ \E pair \in InputPairs :
           /\ original = pair[1]
           /\ modified = pair[2]
    /\ strict_punctuation \in BOOLEAN
    /\ orig_tokens = <<>>
    /\ mod_tokens = <<>>
    /\ orig_keys = <<>>
    /\ mod_keys = <<>>
    /\ opcodes = <<>>
    /\ result = <<>>
    /\ pc = "start"

\* orig_tokens = tokenize(original); mod_tokens = tokenize(modified)
Tokenize ==
    /\ pc = "start"
    /\ orig_tokens' = tokenize(original)
    /\ mod_tokens' = tokenize(modified)
    /\ pc' = "tokenized"
    /\ UNCHANGED <<original, modified, strict_punctuation, orig_keys, mod_keys,
                   opcodes, result>>
    /\ UNCHANGED mainVars

\* orig_keys, mod_keys = _apply_trailing_period_tolerance(...)
ApplyTolerance ==
    /\ pc = "tokenized"
    /\ LET keys == _apply_trailing_period_tolerance(orig_tokens, mod_tokens,
                                                    strict_punctuation)
       IN  /\ orig_keys' = keys[1]
           /\ mod_keys' = keys[2]
           /\ orig_tokens' = keys[3]
           /\ mod_tokens' = keys[4]
    /\ pc' = "keyed"
    /\ UNCHANGED <<original, modified, strict_punctuation, opcodes, result>>
    /\ UNCHANGED mainVars

\* matcher = SequenceMatcher(None, orig_keys, mod_keys); matcher.get_opcodes()
Match ==
    /\ pc = "keyed"
    /\ opcodes' = get_opcodes(orig_keys, mod_keys)
    /\ result' = <<>>
    /\ pc' = "loop"
    /\ UNCHANGED <<original, modified, strict_punctuation, orig_tokens, mod_tokens,
                   orig_keys, mod_keys>>
    /\ UNCHANGED mainVars

\* One iteration of "for tag, i1, i2, j1, j2 in matcher.get_opcodes()", by tag.
\* if tag == 'equal': every token of mod_tokens[j1:j2] with False
EmitEqual ==
    /\ pc = "loop"
    /\ opcodes # <<>>
    /\ Head(opcodes)[1] = "equal"
    /\ result' = result \o emit(mod_tokens, Head(opcodes))
    /\ opcodes' = Tail(opcodes)
    /\ UNCHANGED <<original, modified, strict_punctuation, orig_tokens, mod_tokens,
                   orig_keys, mod_keys, pc>>
    /\ UNCHANGED mainVars

\* elif tag == 'replace': every token of mod_tokens[j1:j2] with True
EmitReplace ==
    /\ pc = "loop"
    /\ opcodes # <<>>
    /\ Head(opcodes)[1] = "replace"
    /\ result' = result \o emit(mod_tokens, Head(opcodes))
    /\ opcodes' = Tail(opcodes)
    /\ UNCHANGED <<original, modified, strict_punctuation, orig_tokens, mod_tokens,
                   orig_keys, mod_keys, pc>>
    /\ UNCHANGED mainVars

\* elif tag == 'insert': every token of mod_tokens[j1:j2] with True
EmitInsert ==
    /\ pc = "loop"
    /\ opcodes # <<>>
    /\ Head(opcodes)[1] = "insert"
    /\ result' = result \o emit(mod_tokens, Head(opcodes))
    /\ opcodes' = Tail(opcodes)
    /\ UNCHANGED <<original, modified, strict_punctuation, orig_tokens, mod_tokens,
                   orig_keys, mod_keys, pc>>
    /\ UNCHANGED mainVars

\* 'delete': nothing is appended
SkipDelete ==
    /\ pc = "loop"
    /\ opcodes # <<>>
    /\ Head(opcodes)[1] = "delete"
    /\ result' = result \o emit(mod_tokens, Head(opcodes))
    /\ opcodes' = Tail(opcodes)
    /\ UNCHANGED <<original, modified, strict_punctuation, orig_tokens, mod_tokens,
                   orig_keys, mod_keys, pc>>
    /\ UNCHANGED mainVars

\* return result
Return ==
    /\ pc = "loop"
    /\ opcodes = <<>>
    /\ pc' = "done"
    /\ UNCHANGED <<original, modified, strict_punctuation, orig_tokens, mod_tokens,
                   orig_keys, mod_keys, opcodes, result>>
    /\ UNCHANGED mainVars

DiffNext ==
    \/ Tokenize
    \/ ApplyTolerance
    \/ Match
    \/ EmitEqual
    \/ EmitReplace
    \/ EmitInsert
    \/ SkipDelete
    \/ Return

\* Nothing of main.py or generate_html runs while get_word_diffs is studied
\* on its own.
ChainIdle ==
    /\ results = [initial_message |-> <<>>, models |-> <<>>, iterations |-> 0,
                  steps |-> <<>>]
    /\ current_message = <<>>
    /\ step_number = 0
    /\ iteration = 0
    /\ model_index = 0
    /\ previous_output = <<>>
    /\ step_index = 0
    /\ steps_html = <<>>
    /\ calls = <<>>
    /\ source = "none"
    /\ main_pc = "idle"

Init == DiffInit /\ ChainIdle

Next == DiffNext

Spec == Init /\ [][Next]_vars

\* ------------------------------------------------- run_chain and generate_html

\* Longest list of models, most iterations, and most steps of a results file.
MaxModels == 2
MaxIterations == 2
MaxFileSteps == 3

\* The messages: the initial message and what a model may answer.
Messages == { <<"a", " ", "b">>, <<"a", " ", "c", ".">> }

ModelNames == {"gpt-4o-mini", "claude-3-5-haiku-latest"}

ModelLists == UNION {[1..n -> ModelNames] : n \in 0..MaxModels}

\* str(e) of a failed completion call.
ErrorTexts == {"APIError"}

\* response.choices[0].message.content may be None (an answer without text);
\* None is kept apart from every str by a one-element value no str equals.
NoneContent == <<"None">>

\* str(e) of the TypeError that output[:100] raises when output is None.
NotSubscriptable == "'NoneType' object is not subscriptable"

\* str(e) of the UnicodeEncodeError that print(f"    Response: ...") raises.
NotEncodable == "'charmap' codec can't encode character"

\* No get_word_diffs call of its own is in progress while main runs.
DiffIdle ==
    /\ original = <<>>
    /\ modified = <<>>
    /\ strict_punctuation \in BOOLEAN
    /\ orig_tokens = <<>>
    /\ mod_tokens = <<>>
    /\ orig_keys = <<>>
    /\ mod_keys = <<>>
    /\ opcodes = <<>>
    /\ result = <<>>
    /\ pc = "idle"

GenIdle ==
    /\ previous_output = <<>>
    /\ step_index = 0
    /\ steps_html = <<>>
    /\ calls = <<>>

\* run_chain(initial_message, models, system_prompt, iterations) is entered:
\* results is built and the locals are set.  system_prompt only travels to
\* the completion call and the timestamp is never read again; both are left out.
RunChainInit ==
    /\ \E m \in Messages, ms \in ModelLists, n \in 0..MaxIterations :
           /\ results = [initial_message |-> m, models |-> ms, iterations |-> n,
                         steps |-> <<>>]
           /\ current_message = m
    /\ step_number = 0
    /\ iteration = 0
    /\ model_index = 0
    /\ source = "run_chain"
    /\ main_pc = "run_chain"

\* The steps of a results file given to visualize.py: each carries an output
\* or an error, in any order.
FileStep(k, input, outcome) ==
    [step |-> k, iteration |-> 1, model |-> "gpt-4o-mini", input |-> input] @@ outcome

Outcomes == {[output |-> m] : m \in Messages} \cup {[error |-> e] : e \in ErrorTexts}

\* visualize.py main: results = json.load(f)
LoadInit ==
    /\ \E m \in Messages, n \in 0..MaxFileSteps :
         \E outs \in [1..n -> Outcomes] :
           results = [initial_message |-> m,
                      models |-> <<"gpt-4o-mini">>,
                      iterations |-> 1,
                      steps |-> [k \in 1..n |-> FileStep(k, m, outs[k])],
                      final_message |-> m]
    /\ current_message = <<>>
    /\ step_number = 0
    /\ iteration = 0
    /\ model_index = 0
    /\ source = "file"
    /\ main_pc = "results"

ChainInit ==
    /\ DiffIdle
    /\ GenIdle
    /\ (RunChainInit \/ LoadInit)

\* The two for loops have a body left to run.
LoopRunning ==
    /\ main_pc = "run_chain"
    /\ iteration < results.iterations
    /\ model_index < Len(results.models)

\* The loop variables after one more pass of the inner loop body.
NextModelIndex == IF model_index + 1 < Len(results.models) THEN model_index + 1 ELSE 0

NextIteration == IF model_index + 1 < Len(results.models) THEN iteration ELSE iteration + 1

StepRecord(outcome) ==
    [step |-> step_number + 1,
     iteration |-> iteration + 1,
     model |-> Py(results.models, model_index),
     input |-> current_message] @@ outcome

\* try: completion(...) returns text; the step is appended and the text is
\* the next message.
CallReturns ==
    /\ LoopRunning
    /\ \E output \in Messages :
           /\ results' = [results EXCEPT
                  !.steps = Append(@, StepRecord([output |-> output]))]
           /\ current_message' = output
    /\ step_number' = step_number + 1
    /\ model_index' = NextModelIndex
    /\ iteration' = NextIteration
    /\ UNCHANGED <<diffVars, genVars, source, main_pc>>

\* try: completion(...) returns no text; the step is appended with output
\* None, then output[:100] raises, the except branch appends an error step
\* and run_chain returns.
CallReturnsNone ==
    /\ LoopRunning
    /\ results' = ("final_message" :> current_message) @@
           [results EXCEPT
              !.steps = @ \o <<StepRecord([output |-> NoneContent]),
                               StepRecord([error |-> NotSubscriptable])>>]
    /\ step_number' = step_number + 1
    /\ main_pc' = "results"
    /\ UNCHANGED <<diffVars, genVars, source, current_message, iteration, model_index>>

\* try: completion(...) returns text and the step is appended, then the
\* print of the response raises (a text stdout cannot encode); the except
\* branch appends an error step and run_chain returns with current_message
\* as it was.
PrintRaises ==
    /\ LoopRunning
    /\ \E output \in Messages :
           results' = ("final_message" :> current_message) @@
               [results EXCEPT
                  !.steps = @ \o <<StepRecord([output |-> output]),
                                   StepRecord([error |-> NotEncodable])>>]
    /\ step_number' = step_number + 1
    /\ main_pc' = "results"
    /\ UNCHANGED <<diffVars, genVars, source, current_message, iteration, model_index>>

\* except Exception as e: the error step is appended and run_chain returns.
CallFails ==
    /\ LoopRunning
    /\ \E e \in ErrorTexts :
           results' = ("final_message" :> current_message) @@
               [results EXCEPT !.steps = Append(@, StepRecord([error |-> e]))]
    /\ step_number' = step_number + 1
    /\ main_pc' = "results"
    /\ UNCHANGED <<diffVars, genVars, source, current_message, iteration, model_index>>

\* Both loops are over: results["final_message"] = current_message; return.
ReturnResults ==
    /\ main_pc = "run_chain"
    /\ ~LoopRunning
    /\ results' = ("final_message" :> current_message) @@ results
    /\ main_pc' = "results"
    /\ UNCHANGED <<diffVars, genVars, source, current_message, step_number,
                   iteration, model_index>>

\* render_diff_html: whitespace verbatim, the other tokens in a span of
\* class changed or unchanged; a part is <<class, text>>.
render_diff_html(tokens) ==
    [k \in 1..Len(tokens) |->
        IF isspace(tokens[k][1]) THEN <<"", tokens[k][1]>>
        ELSE IF tokens[k][2] THEN <<"changed", tokens[k][1]>>
        ELSE <<"unchanged", tokens[k][1]>>]

\* The step div appended to steps_html.
StepHtml(step, diff_html) ==
    [number |-> step.step,
     model |-> step.model,
     iteration_badge |-> IF results.iterations > 1 THEN step.iteration ELSE 0,
     diff_html |-> diff_html]

\* generate_html(results, strict_punctuation) is entered: by main.py with
\* what run_chain returned, by visualize.py with a loaded file.  (main.py
\* prints the summary in between, which changes none of this state.)
GenerateHtml ==
    /\ main_pc = "results"
    /\ steps_html' = <<>>
    /\ previous_output' = results.initial_message
    /\ step_index' = 0
    /\ calls' = <<>>
    /\ main_pc' = "generate_html"
    /\ UNCHANGED <<diffVars, chainVars, source>>

CurrentStep == results.steps[step_index + 1]

InLoop == main_pc = "generate_html" /\ step_index < Len(results.steps)

\* if "error" in step: the error span stands for the diff.
RenderErrorStep_forgetting_previous ==
    /\ InLoop
    /\ "error" \in DOMAIN CurrentStep
    /\ steps_html' = Append(steps_html,
                            StepHtml(CurrentStep, <<<<"error", CurrentStep.error>>>>))
    /\ previous_output' = <<>>
    /\ step_index' = step_index + 1
    /\ UNCHANGED <<diffVars, chainVars, source, main_pc, calls>>

RenderErrorStep ==
    /\ InLoop
    /\ "error" \in DOMAIN CurrentStep
    /\ steps_html' = Append(steps_html,
                            StepHtml(CurrentStep, <<<<"error", CurrentStep.error>>>>))
    /\ step_index' = step_index + 1
    /\ UNCHANGED <<diffVars, chainVars, source, main_pc, previous_output, calls>>

RenderDiffStep_keeping_previous ==
    /\ InLoop
    /\ "error" \notin DOMAIN CurrentStep
    /\ CurrentStep.output # NoneContent
    /\ calls' = Append(calls, [position |-> step_index + 1,
                               original |-> previous_output,
                               modified |-> CurrentStep.output])
    /\ steps_html' = Append(steps_html,
           StepHtml(CurrentStep,
                    render_diff_html(get_word_diffs(previous_output, CurrentStep.output,
                                                    strict_punctuation))))
    /\ step_index' = step_index + 1
    /\ UNCHANGED <<diffVars, chainVars, source, main_pc, previous_output>>

\* else: get_word_diffs(previous_output, step["output"], ...) is rendered and
\* the output becomes previous_output.
RenderDiffStep ==
    /\ InLoop
    /\ "error" \notin DOMAIN CurrentStep
    /\ CurrentStep.output # NoneContent
    /\ calls' = Append(calls, [position |-> step_index + 1,
                               original |-> previous_output,
                               modified |-> CurrentStep.output])
    /\ steps_html' = Append(steps_html,
           StepHtml(CurrentStep,
                    render_diff_html(get_word_diffs(previous_output, CurrentStep.output,
                                                    strict_punctuation))))
    /\ previous_output' = CurrentStep.output
    /\ step_index' = step_index + 1
    /\ UNCHANGED <<diffVars, chainVars, source, main_pc>>

\* else, with an output of None: get_word_diffs is called and
\* tokenize(modified) raises TypeError out of generate_html.
RenderRaises ==
    /\ InLoop
    /\ "error" \notin DOMAIN CurrentStep
    /\ CurrentStep.output = NoneContent
    /\ calls' = Append(calls, [position |-> step_index + 1,
                               original |-> previous_output,
                               modified |-> CurrentStep.output])
    /\ main_pc' = "TypeError"
    /\ UNCHANGED <<diffVars, chainVars, source, steps_html, previous_output, step_index>>

\* The loop is over: the page is put together and returned.
ReturnHtml ==
    /\ main_pc = "generate_html"
    /\ step_index = Len(results.steps)
    /\ main_pc' = "html"
    /\ UNCHANGED <<diffVars, chainVars, genVars, source>>

ChainNext ==
    \/ CallReturns
    \/ CallReturnsNone
    \/ PrintRaises
    \/ CallFails
    \/ ReturnResults
    \/ GenerateHtml
    \/ RenderErrorStep
    \/ RenderDiffStep
    \/ RenderRaises
    \/ ReturnHtml

SpecChain == ChainInit /\ [][ChainNext]_vars

\* ==================================================================== claims

Range(seq) == {seq[k] : k \in 1..Len(seq)}

texts(res) == [k \in 1..Len(res) |-> res[k][1]]

all_unchanged(res) == \A k \in 1..Len(res) : res[k][2] = FALSE

ContentIndices(tokens) == {k \in 1..Len(tokens) : ~isspace(tokens[k])}

\* The position (1-based) of the last content token; only used where one exists.
LastContent(tokens) ==
    CHOOSE k \in ContentIndices(tokens) : \A l \in ContentIndices(tokens) : l <= k

strip_period(token) == SubSeq(token, 1, Len(token) - 1)

tags_of(ops) == {ops[k][1] : k \in 1..Len(ops)}

\* C1 (coverage): whatever original, modified and strict_punctuation are, the
\* returned list has exactly one entry per token of tokenize(modified), in
\* the same order, the texts concatenate to modified, and nothing of the
\* original alone is emitted: an empty modified gives an empty list.
C1_Coverage ==
    pc = "done" =>
        /\ Len(result) = Len(tokenize(modified))
        /\ texts(result) = tokenize(modified)
        /\ join(texts(result)) = modified
        /\ (modified = <<>> => result = <<>>)

\* A finished comparison whose opcodes held a delete, an insert and an equal
\* range: tokens of the original alone were skipped.
C1_Witness ==
    /\ pc = "done"
    /\ Len(result) >= 2
    /\ {"delete", "insert", "equal"} \subseteq tags_of(get_opcodes(orig_keys, mod_keys))

\* The documented case diff("abc", "", strict=True).
C1_WitnessEmptyModified ==
    /\ pc = "done"
    /\ original = abc
    /\ modified = <<>>
    /\ strict_punctuation
    /\ result = <<>>

\* C2 (identity): a string compared with itself has every token unchanged,
\* with strict_punctuation true and with it false.
C2_Identity ==
    (pc = "done" /\ original = modified) => all_unchanged(result)

\* A finished comparison of a three-token string that ends in a period with
\* itself, tolerance on.
C2_Witness ==
    /\ pc = "done"
    /\ original = modified
    /\ ~strict_punctuation
    /\ Len(result) >= 3
    /\ endswith_period(modified)

\* The case of C3: original ends in a content token that does not end with a
\* period, and modified is original with one period appended.
C3_Case ==
    /\ original # <<>>
    /\ original[Len(original)] \notin Whitespace
    /\ original[Len(original)] # "."
    /\ modified = original \o DOT

\* C3 (punctuation tolerance): in that case every token is unchanged when
\* strict_punctuation is false; when it is true exactly the final token is
\* changed; both ways the final token is shown with its period.
C3_PunctuationTolerance ==
    (pc = "done" /\ C3_Case) =>
        LET n == Len(result)
        IN  /\ n = Len(orig_tokens)
            /\ n >= 1
            /\ result[n][1] = orig_tokens[n] \o DOT
            /\ \A k \in 1..(n - 1) : result[k] = <<orig_tokens[k], FALSE>>
            /\ result[n][2] = strict_punctuation

\* diff("Hello world", "Hello world.") finished, with the tolerance on.
C3_Witness ==
    /\ pc = "done"
    /\ original = HelloWorld
    /\ modified = HelloWorld \o DOT
    /\ ~strict_punctuation
    /\ result = <<<<Hello, FALSE>>, <<SP, FALSE>>, <<world \o DOT, FALSE>>>>

\* C4 (non-over-application): when the last content token of the original
\* already ends with a period the comparison keys are the tokens themselves,
\* so the tolerant result is the strict one; "Hello world." against
\* "Hello world.." has its final token changed, as has every original with a
\* period appended to a final token that already ends with one.
C4_NonOverApplication ==
    (/\ pc = "done"
     /\ ~strict_punctuation
     /\ ContentIndices(orig_tokens) # {}
     /\ endswith_period(orig_tokens[LastContent(orig_tokens)])) =>
        /\ orig_keys = orig_tokens
        /\ mod_keys = mod_tokens
        /\ result = get_word_diffs(original, modified, TRUE)
        /\ (modified = original \o DOT /\ endswith_period(original)) =>
               (result # <<>> /\ result[Len(result)][2] = TRUE)

\* diff("Hello world.", "Hello world..", strict=False) finished.
C4_Witness ==
    /\ pc = "done"
    /\ ~strict_punctuation
    /\ original = HelloWorld \o DOT
    /\ modified = HelloWorld \o DOT \o DOT
    /\ result = <<<<Hello, FALSE>>, <<SP, FALSE>>, <<world \o DOT \o DOT, TRUE>>>>

\* Whether the rule of the normalizer applies to the two token lists.
C5_RuleApplies ==
    /\ ~strict_punctuation
    /\ ContentIndices(orig_tokens) # {}
    /\ ContentIndices(mod_tokens) # {}
    /\ endswith_period(mod_tokens[LastContent(mod_tokens)])
    /\ ~endswith_period(orig_tokens[LastContent(orig_tokens)])
    /\ strip_period(mod_tokens[LastContent(mod_tokens)])
           = orig_tokens[LastContent(orig_tokens)]

\* C5 (normalizer rule): once _apply_trailing_period_tolerance has returned,
\* the display tokens are still the tokens of the two strings, the original
\* keys are the original tokens, and the modified keys are the modified
\* tokens at every index but one: where the rule applies, the key at the
\* last content index is that token without its period.  With strict true,
\* or with no content token on either side, both key lists are the inputs.
C5_NormalizerRule ==
    pc \in {"keyed", "loop", "done"} =>
        /\ orig_tokens = tokenize(original)
        /\ mod_tokens = tokenize(modified)
        /\ orig_keys = orig_tokens
        /\ Len(mod_keys) = Len(mod_tokens)
        /\ \A k \in 1..Len(mod_tokens) :
               mod_keys[k] = IF C5_RuleApplies /\ k = LastContent(mod_tokens)
                             THEN strip_period(mod_tokens[k])
                             ELSE mod_tokens[k]
        /\ (strict_punctuation \/ ContentIndices(orig_tokens) = {}
                \/ ContentIndices(mod_tokens) = {}) => mod_keys = mod_tokens

\* The normalizer has just rewritten the key of a last content token that is
\* followed by whitespace and preceded by another content token.
C5_Witness ==
    /\ pc = "keyed"
    /\ C5_RuleApplies
    /\ mod_keys # mod_tokens
    /\ LastContent(mod_tokens) < Len(mod_tokens)
    /\ Cardinality(ContentIndices(mod_tokens)) >= 2

\* C6 (reconstruction): the tokens of a string concatenate to the string.
C6_Reconstruction ==
    pc # "start" =>
        /\ join(orig_tokens) = original
        /\ join(mod_tokens) = modified

\* Tokenized: a string that starts with whitespace, holds a run of two
\* blanks and has at least three tokens.
C6_Witness ==
    /\ pc = "tokenized"
    /\ Len(mod_tokens) >= 3
    /\ isspace(mod_tokens[1])
    /\ \E k \in 1..Len(mod_tokens) : isspace(mod_tokens[k]) /\ Len(mod_tokens[k]) >= 2

is_token(t) ==
    /\ Len(t) >= 1
    /\ \/ \A k \in 1..Len(t) : t[k] \in Whitespace
       \/ \A k \in 1..Len(t) : t[k] \notin Whitespace

maximal_runs(tokens) ==
    /\ \A k \in 1..Len(tokens) : is_token(tokens[k])
    /\ \A k \in 1..(Len(tokens) - 1) : isspace(tokens[k]) # isspace(tokens[k + 1])

\* C7 (maximal runs): every token is non-empty and all whitespace or all
\* non-whitespace, adjacent tokens differ in that class, and the empty
\* string has no token.
C7_MaximalRuns ==
    pc # "start" =>
        /\ maximal_runs(orig_tokens)
        /\ maximal_runs(mod_tokens)
        /\ (original = <<>> => orig_tokens = <<>>)
        /\ (modified = <<>> => mod_tokens = <<>>)

\* Tokenized: one string is empty, the other has a content token of two
\* characters or more between whitespace tokens.
C7_Witness ==
    /\ pc = "tokenized"
    /\ original = <<>>
    /\ orig_tokens = <<>>
    /\ \E k \in 2..(Len(mod_tokens) - 1) :
           /\ ~isspace(mod_tokens[k])
           /\ Len(mod_tokens[k]) >= 2

\* The case of C8: the modified tokens are the original tokens followed by
\* appended tokens.
C8_Case ==
    /\ Len(mod_tokens) >= Len(orig_tokens)
    /\ SubSeq(mod_tokens, 1, Len(orig_tokens)) = orig_tokens

\* C8 (pure insertion): in that case every token of the shared prefix is
\* unchanged and every appended content token is changed; for "The cat sat"
\* against "The cat sat quietly", strict, the five prefix tokens are
\* unchanged, "quietly" is changed, and nothing but "quietly" and the
\* whitespace before it is changed.
C8_PureInsertion ==
    (pc = "done" /\ C8_Case) =>
        /\ Len(result) = Len(mod_tokens)
        /\ \A k \in 1..Len(orig_tokens) : result[k] = <<orig_tokens[k], FALSE>>
        /\ \A k \in (Len(orig_tokens) + 1)..Len(mod_tokens) :
               ~isspace(mod_tokens[k]) => result[k] = <<mod_tokens[k], TRUE>>
        /\ (original = TheCatSat /\ modified = TheCatSat \o SP \o quietly
                /\ strict_punctuation) =>
               /\ Len(result) = 7
               /\ result[7] = <<quietly, TRUE>>
               /\ \A k \in 1..5 : result[k][2] = FALSE

\* diff("The cat sat", "The cat sat quietly", strict=True) finished.
C8_Witness ==
    /\ pc = "done"
    /\ strict_punctuation
    /\ original = TheCatSat
    /\ modified = TheCatSat \o SP \o quietly
    /\ Len(result) = 7

\* C9 (full replacement): with strict_punctuation true, when no content
\* token of modified equals a token of original, every content token of the
\* result is changed.
C9_FullReplacement ==
    (/\ pc = "done"
     /\ strict_punctuation
     /\ \A k \in ContentIndices(mod_tokens) : mod_tokens[k] \notin Range(orig_tokens)) =>
        \A k \in 1..Len(result) : ~isspace(result[k][1]) => result[k][2] = TRUE

\* diff("abc", "xyz", strict=True) finished: its one token is changed.
C9_Witness ==
    /\ pc = "done"
    /\ strict_punctuation
    /\ original = abc
    /\ modified = xyz
    /\ result = <<<<xyz, TRUE>>>>

\* Whitespace that lines up stays unchanged between two strings that share
\* no content token.
C9_WitnessWhitespace ==
    /\ pc = "done"
    /\ strict_punctuation
    /\ ContentIndices(mod_tokens) # {}
    /\ \A k \in ContentIndices(mod_tokens) : mod_tokens[k] \notin Range(orig_tokens)
    /\ \E k \in 1..Len(result) : isspace(result[k][1]) /\ result[k][2] = FALSE

\* The output of the last step before position k (1-based) that carries no
\* error, or the initial message when there is none.
RECURSIVE LastOutputBefore(_)
LastOutputBefore(k) ==
    IF k <= 1 THEN results.initial_message
    ELSE IF "error" \in DOMAIN results.steps[k - 1] THEN LastOutputBefore(k - 1)
    ELSE results.steps[k - 1].output

error_indicator(step) == <<<<"error", step.error>>>>

\* C10 (error steps bypass the core): generate_html never calls
\* get_word_diffs for a step that carries "error"; the div of such a step
\* holds the error indicator; and such a step leaves previous_output alone:
\* inside the loop previous_output is the output of the last step so far
\* without an error, or the initial message, and that is the original of
\* every get_word_diffs call.
C10_ErrorStepsBypass ==
    /\ \A c \in 1..Len(calls) :
           /\ "error" \notin DOMAIN results.steps[calls[c].position]
           /\ calls[c].original = LastOutputBefore(calls[c].position)
           /\ calls[c].modified = results.steps[calls[c].position].output
    /\ \A k \in 1..Len(steps_html) :
           "error" \in DOMAIN results.steps[k] =>
               steps_html[k].diff_html = error_indicator(results.steps[k])
    /\ main_pc = "generate_html" => previous_output = LastOutputBefore(step_index + 1)

\* A page is finished for a file whose second step failed between two
\* successful ones: the third step was compared with the first step's
\* output, which is not the initial message.
C10_Witness ==
    /\ main_pc = "html"
    /\ Len(results.steps) = 3
    /\ "error" \notin DOMAIN results.steps[1]
    /\ "error" \in DOMAIN results.steps[2]
    /\ "error" \notin DOMAIN results.steps[3]
    /\ results.steps[1].output # results.initial_message
    /\ Len(calls) = 2
    /\ calls[2].position = 3
    /\ calls[2].original = results.steps[1].output
    /\ steps_html[2].diff_html = error_indicator(results.steps[2])

\* A page is finished for a file whose first step failed: the second step
\* was compared with the initial message.
C10_WitnessInitial ==
    /\ main_pc = "html"
    /\ Len(results.steps) >= 2
    /\ "error" \in DOMAIN results.steps[1]
    /\ Len(calls) >= 1
    /\ calls[1].position = 2
    /\ calls[1].original = results.initial_message

\* The positions (1-based, ascending) of the steps among the first n that
\* carry an output.
RECURSIVE OutputPositions(_)
OutputPositions(n) ==
    IF n = 0 THEN <<>>
    ELSE IF "output" \in DOMAIN results.steps[n]
    THEN Append(OutputPositions(n - 1), n)
    ELSE OutputPositions(n - 1)

\* The steps generate_html has gone through: a call that raised belongs to
\* the step after step_index.
StepsVisited == IF main_pc = "TypeError" THEN step_index + 1 ELSE step_index

\* C11 (one core call per successful step, with the right pair): on results
\* that run_chain returned, the get_word_diffs calls of generate_html are,
\* in order, one for each step so far that has an output; the original of
\* each is the output of the step before (the initial message for the
\* first step), which is the input the step recorded, and the modified is
\* the step's output.
C11_OneCallPerOutputStep ==
    source = "run_chain" =>
        /\ [c \in 1..Len(calls) |-> calls[c].position] = OutputPositions(StepsVisited)
        /\ \A c \in 1..Len(calls) :
               LET k == calls[c].position
               IN  /\ calls[c].original =
                          IF k = 1 THEN results.initial_message
                          ELSE results.steps[k - 1].output
                   /\ calls[c].original = results.steps[k].input
                   /\ calls[c].modified = results.steps[k].output

\* A page is finished for a chain of four calls, the last of which failed:
\* three calls were made, and the message changed on the way.
C11_Witness ==
    /\ source = "run_chain"
    /\ main_pc = "html"
    /\ Len(results.steps) = 4
    /\ "error" \in DOMAIN results.steps[4]
    /\ Len(calls) = 3
    /\ calls[2].original # calls[3].original
    /\ calls[1].original # calls[1].modified

\* Whether s is a subsequence of t: the elements of s occur in t in order.
RECURSIVE IsSubsequence(_, _)
IsSubsequence(s, t) ==
    IF s = <<>> THEN TRUE
    ELSE IF t = <<>> THEN FALSE
    ELSE IF Head(s) = Head(t) THEN IsSubsequence(Tail(s), Tail(t))
    ELSE IsSubsequence(s, Tail(t))

\* The comparison keys of the entries of res marked unchanged, in order.
RECURSIVE UnchangedKeys(_, _)
UnchangedKeys(res, keys) ==
    IF res = <<>> THEN <<>>
    ELSE IF Head(res)[2] = FALSE
    THEN <<Head(keys)>> \o UnchangedKeys(Tail(res), Tail(keys))
    ELSE UnchangedKeys(Tail(res), Tail(keys))

\* C12 (soundness of "unchanged"): the keys of the tokens marked unchanged,
\* in output order, are a subsequence of the original's keys, and a token
\* whose key is no key of the original is marked changed.
C12_UnchangedSound ==
    pc = "done" =>
        /\ Len(result) = Len(mod_keys)
        /\ IsSubsequence(UnchangedKeys(result, mod_keys), orig_keys)
        /\ \A k \in 1..Len(result) :
               mod_keys[k] \notin Range(orig_keys) => result[k][2] = TRUE

\* A finished tolerant comparison where the rule rewrote a key: the token
\* shown with its period is unchanged, another token is changed, and a
\* token of the original was deleted.
C12_Witness ==
    /\ pc = "done"
    /\ mod_keys # mod_tokens
    /\ \E k \in 1..Len(result) :
           /\ result[k][2] = FALSE
           /\ result[k][1] # mod_keys[k]
    /\ \E k \in 1..Len(result) : result[k][2] = TRUE
    /\ "delete" \in tags_of(get_opcodes(orig_keys, mod_keys))

\* C13 (tolerance only removes changes): every position that the strict
\* comparison of a pair leaves unchanged is unchanged in the tolerant
\* comparison of the same pair.
C13_ToleranceOnlyRemovesChanges ==
    (pc = "done" /\ ~strict_punctuation) =>
        LET strict_result == get_word_diffs(original, modified, TRUE)
        IN  \A k \in 1..Len(result) :
                strict_result[k][2] = FALSE => result[k][2] = FALSE

has_output(step) == "output" \in DOMAIN step

has_error(step) == "error" \in DOMAIN step

\* C14 (chain continuity): the steps run_chain has recorded are numbered
\* 1..n with n <= len(models) * iterations; each has an input and exactly one
\* of output and error; the first input is the initial message and every
\* later input is the output of the step before; step k used
\* models[(k-1) mod len(models)] in iteration ((k-1) div len(models)) + 1;
\* and a chain that returned without a failure has n = len(models) * iterations.
C14_ChainContinuity ==
    source = "run_chain" =>
        LET st == results.steps
            n  == Len(st)
            L  == Len(results.models)
        IN  /\ n <= L * results.iterations
            /\ \A k \in 1..n :
                   /\ st[k].step = k
                   /\ "input" \in DOMAIN st[k]
                   /\ has_output(st[k]) # has_error(st[k])
                   /\ st[k].model = Py(results.models, (k - 1) % L)
                   /\ st[k].iteration = ((k - 1) \div L) + 1
            /\ n >= 1 => st[1].input = results.initial_message
            /\ \A k \in 2..n :
                   /\ has_output(st[k - 1])
                   /\ st[k].input = st[k - 1].output
            /\ (main_pc # "run_chain" /\ \A k \in 1..n : ~has_error(st[k])) =>
                   n = L * results.iterations

\* The output of the last recorded step that has one, or the initial message.
LastRecordedOutput == LastOutputBefore(Len(results.steps) + 1)

\* C15 (stop at first failure): a step with an error has no output, is the
\* only record of its step and the last step recorded; once it is recorded
\* run_chain has returned; and the final message of a returned chain is the
\* last recorded output, or the initial message when there is none (so,
\* without a failure, the output of the last step).
C15_StopAtFirstFailure ==
    source = "run_chain" =>
        LET st == results.steps
            n  == Len(st)
        IN  /\ \A k \in 1..n :
                   has_error(st[k]) =>
                       /\ k = n
                       /\ ~has_output(st[k])
                       /\ \A j \in 1..n : st[j].step = st[k].step => j = k
                       /\ main_pc # "run_chain"
            /\ main_pc # "run_chain" =>
                   /\ "final_message" \in DOMAIN results
                   /\ results.final_message = LastRecordedOutput
                   /\ (n >= 1 /\ ~has_error(st[n])) =>
                          results.final_message = st[n].output

====
